---- MODULE Spec2Model ----
(***************************************************************************)
(* Model of uniswap_gov_alert.py: a scheduled job that fetches the topic   *)
(* listing of one forum category, relays topics newer than a persisted     *)
(* watermark as chat notifications and advances the watermark.             *)
(*                                                                         *)
(* A topic is modelled by its id (title and slug are carried from the feed *)
(* into the message text unchanged and decide nothing).  A notification is *)
(* the pair of its header ("NEW" for "*New Uniswap governance thread*",    *)
(* "TEST" for "*[TEST]* Latest topic ...") and the topic id in its URL.    *)
(***************************************************************************)
EXTENDS Integers, Sequences, FiniteSets

\* ---- Bounds --------------------------------------------------------------
MaxTopicId == 3        \* topic ids are drawn from 1..MaxTopicId
MaxLen == 3            \* longest listing the feed returns
NumProcs == 2          \* invocations of the job that exist side by side

Procs == 1..NumProcs
TopicIds == 1..MaxTopicId

VARIABLES
  file,               \* content of STATE_FILE (uniswap_last_seen.json)
  pc,                 \* pc[p]: position of invocation p
  force,              \* force[p]: FORCE_LATEST as read by invocation p
  creds,              \* creds[p]: TELEGRAM_BOT_TOKEN and TELEGRAM_CHAT_ID both set
  topics,             \* topics[p]: the list main() got from fetch_uniswap_topics()
  last_seen,          \* last_seen[p]: local of run_normal
  new_topics_sorted,  \* new_topics_sorted[p]: local of run_normal
  idx,                \* idx[p]: position of the for loop in new_topics_sorted
  topic_id,           \* topic_id[p]: argument of the save_last_seen call in progress
  error,              \* error[p]: the exception that ended the run, "" if none
  feed,               \* history: the listing as the endpoint returned it
  log,                \* history: store operations and notifications of the run
  fileAtStart,        \* history: content of STATE_FILE when the run started
  lastSaved,          \* history: what the last completed save_last_seen wrote
  prev                \* history: the last normal-mode run that ended

vars == <<file, pc, force, creds, topics, last_seen, new_topics_sorted, idx,
          topic_id, error, feed, log, fileAtStart, lastSaved, prev>>

\* ---- The state file ------------------------------------------------------
Absent == [kind |-> "absent", val |-> 0]          \* no file at STATE_FILE
Truncated == [kind |-> "truncated", val |-> 0]    \* opened for writing, nothing written
Garbage == [kind |-> "garbage", val |-> 0]        \* content json.load rejects
NoField == [kind |-> "nofield", val |-> 0]        \* a JSON object without last_topic_id
Record(n) == [kind |-> "json", val |-> n]         \* {"last_topic_id": n}

PathExists(f) == f.kind # "absent"

\* ---- The text of the state file ------------------------------------------
\* The characters json.dump writes and json.load reads, as a sequence of
\* tokens: braces, the member name, the colon and one token per digit.
DigitChars == <<"0", "1", "2", "3", "4", "5", "6", "7", "8", "9">>
DigitChar(d) == DigitChars[d + 1]
IsDigit(c) == \E d \in 0..9 : DigitChar(d) = c
DigitValue(c) == CHOOSE d \in 0..9 : DigitChar(d) = c

\* the decimal text of a non-negative int
RECURSIVE Digits(_)
Digits(n) ==
  IF n < 10 THEN <<DigitChar(n)>>
  ELSE Digits(n \div 10) \o <<DigitChar(n % 10)>>

\* the int a decimal text denotes
RECURSIVE NumberOf(_)
NumberOf(t) ==
  IF t = <<>> THEN 0
  ELSE 10 * NumberOf(SubSeq(t, 1, Len(t) - 1)) + DigitValue(t[Len(t)])

\* Variant: the record is written under another member name.
JsonDump_OtherKey(n) == <<"{", "last_seen", ":">> \o Digits(n) \o <<"}">>

\* json.dump({"last_topic_id": int(topic_id)}, f)
JsonDump(n) == <<"{", "last_topic_id", ":">> \o Digits(n) \o <<"}">>

\* What open(path, "r") reads from an existing state file.
Text(f) ==
  IF f.kind = "json" THEN JsonDump(f.val)
  ELSE IF f.kind = "nofield" THEN <<"{", "}">>
  ELSE IF f.kind = "garbage" THEN <<"?">>
  ELSE <<>>

\* json.load: an object with no member or with one integer member; any
\* other text of the model (the empty text included) is a JSONDecodeError.
JsonLoad(t) ==
  IF t = <<"{", "}">> THEN [ok |-> TRUE, key |-> "", val |-> 0]
  ELSE IF /\ Len(t) >= 5
          /\ t[1] = "{" /\ t[3] = ":" /\ t[Len(t)] = "}"
          /\ \A k \in 4..(Len(t) - 1) : IsDigit(t[k])
       THEN [ok |-> TRUE, key |-> t[2], val |-> NumberOf(SubSeq(t, 4, Len(t) - 1))]
       ELSE [ok |-> FALSE, key |-> "", val |-> 0]

\* load_last_seen: 0 when the file is absent, json.load fails on content
\* that is not JSON, obj.get("last_topic_id", 0) defaults a missing field.
LoadLastSeen(f) ==
  IF ~PathExists(f) THEN [ok |-> TRUE, val |-> 0]
  ELSE LET obj == JsonLoad(Text(f))
       IN IF ~obj.ok THEN [ok |-> FALSE, val |-> 0]
          ELSE IF obj.key = "last_topic_id" THEN [ok |-> TRUE, val |-> obj.val]
          ELSE [ok |-> TRUE, val |-> 0]

\* ---- Lists of topics -----------------------------------------------------
Topic(i) == [id |-> i]

RECURSIVE InsertBy(_, _, _)
InsertBy(t, s, desc) ==
  IF s = <<>> THEN <<t>>
  ELSE IF (desc /\ t.id > Head(s).id) \/ (~desc /\ t.id < Head(s).id)
       THEN <<t>> \o s
       ELSE <<Head(s)>> \o InsertBy(t, Tail(s), desc)

RECURSIVE SortBy(_, _)
SortBy(s, desc) ==
  IF s = <<>> THEN <<>> ELSE InsertBy(Head(s), SortBy(Tail(s), desc), desc)

\* Variant: the listing is kept in feed order.
SortNewestFirst_FeedOrder(s) == s

\* topics.sort(key=lambda t: t["id"], reverse=True)
SortNewestFirst(s) == SortBy(s, TRUE)

\* Variant: the batch is kept in listing order.
SortOldestFirst_ListingOrder(s) == s

\* sorted(new_topics, key=lambda t: t["id"])
SortOldestFirst(s) == SortBy(s, FALSE)

IdsOf(s) == {s[k].id : k \in 1..Len(s)}

\* Variant: the id of the last topic of the list.
MaxIdOf_Last(s) == s[Len(s)].id

\* max(t["id"] for t in topics), for a non-empty list
MaxIdOf(s) == CHOOSE m \in IdsOf(s) : \A n \in IdsOf(s) : n <= m

\* Variant: no comparison with the watermark.
NewerThan_Any(t, seen) == TRUE

\* Variant: the comparison admits the watermark itself.
NewerThan_OrEqual(t, seen) == t.id >= seen

NewerThan(t, seen) == t.id > seen

\* [t for t in topics if t["id"] > last_seen]
NewTopics(s, seen) == SelectSeq(s, LAMBDA t : NewerThan(t, seen))

\* What the category endpoint can return: topics with distinct ids, any order.
Feeds ==
  {s \in UNION {[1..n -> {Topic(i) : i \in TopicIds}] : n \in 0..MaxLen} :
     \A a, b \in 1..Len(s) : a # b => s[a].id # s[b].id}

\* ---- History entries -----------------------------------------------------
\* "send" with the header and topic id of the notification, "save" with the
\* id written, "load" with the value returned (0 when it raised), "exists".
Ev(op, label, id) == [op |-> op, label |-> label, id |-> id]
IsSend(e) == e.op = "send"
SentOf(l) == SelectSeq(l, IsSend)
Sent(p) == SentOf(log[p])
\* prev: how the last normal-mode run ended, its listing and what it sent;
\* notified: the ids sent by the normal-mode runs completed so far, kept only
\* where runs end by ExitNotified.
NoRun == [outcome |-> "none", topics |-> <<>>, sent |-> <<>>, notified |-> {}]

\* ---- Initial state -------------------------------------------------------
Init ==
  /\ file \in {Absent, Garbage, NoField} \cup {Record(n) : n \in 0..MaxTopicId}
  /\ pc = [p \in Procs |-> "idle"]
  /\ force = [p \in Procs |-> FALSE]
  /\ creds = [p \in Procs |-> FALSE]
  /\ topics = [p \in Procs |-> <<>>]
  /\ last_seen = [p \in Procs |-> 0]
  /\ new_topics_sorted = [p \in Procs |-> <<>>]
  /\ idx = [p \in Procs |-> 0]
  /\ topic_id = [p \in Procs |-> 0]
  /\ error = [p \in Procs |-> ""]
  /\ feed = [p \in Procs |-> <<>>]
  /\ log = [p \in Procs |-> <<>>]
  /\ fileAtStart = [p \in Procs |-> Absent]
  /\ lastSaved = Absent
  /\ prev = NoRun

\* ---- Steps of one invocation ---------------------------------------------
Logged(p, e) == log' = [log EXCEPT ![p] = Append(@, e)]

\* An unhandled exception leaves main(): the process ends with a failure.
Raise(p, exc) ==
  /\ pc' = [pc EXCEPT ![p] = "aborted"]
  /\ error' = [error EXCEPT ![p] = exc]

\* The scheduler starts the job; the module reads its environment (lines
\* 34-36).  Runs are serialized: no other invocation is in progress.
Start(p) ==
  /\ \A q \in Procs : pc[q] = "idle"
  /\ \E f \in BOOLEAN, c \in BOOLEAN :
       /\ force' = [force EXCEPT ![p] = f]
       /\ creds' = [creds EXCEPT ![p] = c]
  /\ pc' = [pc EXCEPT ![p] = "fetch"]
  /\ fileAtStart' = [fileAtStart EXCEPT ![p] = file]
  /\ UNCHANGED <<feed, file, topics, last_seen, new_topics_sorted, idx, topic_id,
                 error, log, lastSaved, prev>>

\* fetch_uniswap_topics succeeds: the listing, re-sorted newest first;
\* main() then selects the mode.
Fetch(p) ==
  /\ pc[p] = "fetch"
  /\ \E f \in Feeds :
       /\ feed' = [feed EXCEPT ![p] = f]
       /\ topics' = [topics EXCEPT ![p] = SortNewestFirst(f)]
  /\ pc' = [pc EXCEPT ![p] = IF force[p] THEN "force" ELSE "normal"]
  /\ UNCHANGED <<file, force, creds, last_seen, new_topics_sorted, idx,
                 topic_id, error, log, fileAtStart, lastSaved, prev>>

\* requests.get raises, or raise_for_status() rejects the response.
FetchFail(p) ==
  /\ pc[p] = "fetch"
  /\ Raise(p, "FetchError")
  /\ UNCHANGED <<feed, file, force, creds, topics, last_seen, new_topics_sorted,
                 idx, topic_id, log, fileAtStart, lastSaved, prev>>

\* Variant: the credentials are checked before the listing is looked at.
ForceEmpty_CheckCreds(p) ==
  /\ pc[p] = "force"
  /\ topics[p] = <<>>
  /\ IF creds[p]
     THEN pc' = [pc EXCEPT ![p] = "done"] /\ UNCHANGED error
     ELSE Raise(p, "ConfigError")
  /\ UNCHANGED <<feed, file, force, creds, topics, last_seen, new_topics_sorted,
                 idx, topic_id, log, fileAtStart, lastSaved, prev>>

\* run_force_latest, lines 92-94
ForceEmpty(p) ==
  /\ pc[p] = "force"
  /\ topics[p] = <<>>
  /\ pc' = [pc EXCEPT ![p] = "done"]
  /\ UNCHANGED <<feed, file, force, creds, topics, last_seen, new_topics_sorted,
                 idx, topic_id, error, log, fileAtStart, lastSaved, prev>>

\* Variant: the test alert also records its topic as seen.
ForceSend_Save(p) ==
  /\ pc[p] = "force"
  /\ topics[p] # <<>>
  /\ creds[p]
  /\ log' = [log EXCEPT ![p] = @ \o <<Ev("send", "TEST", topics[p][1].id),
                                       Ev("save", "", topics[p][1].id)>>]
  /\ file' = Record(topics[p][1].id)
  /\ lastSaved' = Record(topics[p][1].id)
  /\ pc' = [pc EXCEPT ![p] = "done"]
  /\ UNCHANGED <<feed, force, creds, topics, last_seen, new_topics_sorted,
                 idx, topic_id, error, fileAtStart, prev>>

\* run_force_latest, lines 96-108, send_telegram returning normally
ForceSend(p) ==
  /\ pc[p] = "force"
  /\ topics[p] # <<>>
  /\ creds[p]
  /\ Logged(p, Ev("send", "TEST", topics[p][1].id))
  /\ pc' = [pc EXCEPT ![p] = "done"]
  /\ UNCHANGED <<feed, file, force, creds, topics, last_seen, new_topics_sorted,
                 idx, topic_id, error, fileAtStart, lastSaved, prev>>

\* send_telegram, lines 43-44, called from run_force_latest
ForceSendNoCreds(p) ==
  /\ pc[p] = "force"
  /\ topics[p] # <<>>
  /\ ~creds[p]
  /\ Raise(p, "ConfigError")
  /\ UNCHANGED <<feed, file, force, creds, topics, last_seen, new_topics_sorted,
                 idx, topic_id, log, fileAtStart, lastSaved, prev>>

\* send_telegram, lines 52-54: the POST raises or its status is an error
ForceSendFail(p) ==
  /\ pc[p] = "force"
  /\ topics[p] # <<>>
  /\ creds[p]
  /\ Raise(p, "DispatchError")
  /\ UNCHANGED <<feed, file, force, creds, topics, last_seen, new_topics_sorted,
                 idx, topic_id, log, fileAtStart, lastSaved, prev>>

\* Variant: an empty listing initializes a missing state file to 0.
NormalEmpty_Init(p) ==
  /\ pc[p] = "normal"
  /\ topics[p] = <<>>
  /\ IF PathExists(file)
     THEN pc' = [pc EXCEPT ![p] = "done"] /\ UNCHANGED topic_id
     ELSE /\ pc' = [pc EXCEPT ![p] = "save_open"]
          /\ topic_id' = [topic_id EXCEPT ![p] = 0]
  /\ UNCHANGED <<feed, file, force, creds, topics, last_seen, new_topics_sorted,
                 idx, error, log, fileAtStart, lastSaved, prev>>

\* run_normal, lines 113-115
NormalEmpty(p) ==
  /\ pc[p] = "normal"
  /\ topics[p] = <<>>
  /\ pc' = [pc EXCEPT ![p] = "done"]
  /\ UNCHANGED <<feed, file, force, creds, topics, last_seen, new_topics_sorted,
                 idx, topic_id, error, log, fileAtStart, lastSaved, prev>>

\* run_normal, lines 117-120: no state file, save_last_seen(max_id) is called
NormalFirstRun(p) ==
  /\ pc[p] = "normal"
  /\ topics[p] # <<>>
  /\ ~PathExists(file)
  /\ Logged(p, Ev("exists", "", 0))
  /\ topic_id' = [topic_id EXCEPT ![p] = MaxIdOf(topics[p])]
  /\ pc' = [pc EXCEPT ![p] = "save_open"]
  /\ UNCHANGED <<feed, file, force, creds, topics, last_seen, new_topics_sorted,
                 idx, error, fileAtStart, lastSaved, prev>>

\* run_normal, line 117: the state file exists
NormalExists(p) ==
  /\ pc[p] = "normal"
  /\ topics[p] # <<>>
  /\ PathExists(file)
  /\ Logged(p, Ev("exists", "", 0))
  /\ pc' = [pc EXCEPT ![p] = "load"]
  /\ UNCHANGED <<feed, file, force, creds, topics, last_seen, new_topics_sorted,
                 idx, topic_id, error, fileAtStart, lastSaved, prev>>

\* run_normal, line 124: json.load raises on the content of the state file
NormalLoadFail(p) ==
  /\ pc[p] = "load"
  /\ ~LoadLastSeen(file).ok
  /\ Logged(p, Ev("load", "", 0))
  /\ Raise(p, "CorruptStateError")
  /\ UNCHANGED <<feed, file, force, creds, topics, last_seen, new_topics_sorted,
                 idx, topic_id, fileAtStart, lastSaved, prev>>

\* Variant: with nothing new the run still falls through to the save.
NormalNoNew_Save(p) ==
  /\ pc[p] = "load"
  /\ LoadLastSeen(file).ok
  /\ NewTopics(topics[p], LoadLastSeen(file).val) = <<>>
  /\ Logged(p, Ev("load", "", LoadLastSeen(file).val))
  /\ last_seen' = [last_seen EXCEPT ![p] = LoadLastSeen(file).val]
  /\ topic_id' = [topic_id EXCEPT ![p] = LoadLastSeen(file).val]
  /\ pc' = [pc EXCEPT ![p] = "save_open"]
  /\ UNCHANGED <<feed, file, force, creds, topics, new_topics_sorted, idx,
                 error, fileAtStart, lastSaved, prev>>

\* run_normal, lines 124-129: nothing newer than last_seen
NormalNoNew(p) ==
  /\ pc[p] = "load"
  /\ LoadLastSeen(file).ok
  /\ NewTopics(topics[p], LoadLastSeen(file).val) = <<>>
  /\ Logged(p, Ev("load", "", LoadLastSeen(file).val))
  /\ last_seen' = [last_seen EXCEPT ![p] = LoadLastSeen(file).val]
  /\ pc' = [pc EXCEPT ![p] = "done"]
  /\ UNCHANGED <<feed, file, force, creds, topics, new_topics_sorted, idx, topic_id,
                 error, fileAtStart, lastSaved, prev>>

\* run_normal, lines 124-132: the batch of new topics, oldest first
NormalNew(p) ==
  /\ pc[p] = "load"
  /\ LoadLastSeen(file).ok
  /\ NewTopics(topics[p], LoadLastSeen(file).val) # <<>>
  /\ Logged(p, Ev("load", "", LoadLastSeen(file).val))
  /\ last_seen' = [last_seen EXCEPT ![p] = LoadLastSeen(file).val]
  /\ new_topics_sorted' = [new_topics_sorted EXCEPT ![p] =
         SortOldestFirst(NewTopics(topics[p], LoadLastSeen(file).val))]
  /\ idx' = [idx EXCEPT ![p] = 1]
  /\ pc' = [pc EXCEPT ![p] = "loop"]
  /\ UNCHANGED <<feed, file, force, creds, topics, topic_id, error, fileAtStart,
                 lastSaved, prev>>

\* Variant: the loop does not advance last_seen (line 147 missing).
LoopSend_NoAdvance(p) ==
  /\ pc[p] = "loop"
  /\ idx[p] <= Len(new_topics_sorted[p])
  /\ creds[p]
  /\ Logged(p, Ev("send", "NEW", new_topics_sorted[p][idx[p]].id))
  /\ idx' = [idx EXCEPT ![p] = @ + 1]
  /\ UNCHANGED <<feed, file, pc, force, creds, topics, last_seen,
                 new_topics_sorted, topic_id, error, fileAtStart, lastSaved,
                 prev>>

\* Variant: the watermark is persisted after every notification.
LoopSend_SaveEach(p) ==
  /\ pc[p] = "loop"
  /\ idx[p] <= Len(new_topics_sorted[p])
  /\ creds[p]
  /\ Logged(p, Ev("send", "NEW", new_topics_sorted[p][idx[p]].id))
  /\ last_seen' = [last_seen EXCEPT ![p] = new_topics_sorted[p][idx[p]].id]
  /\ file' = Record(new_topics_sorted[p][idx[p]].id)
  /\ lastSaved' = Record(new_topics_sorted[p][idx[p]].id)
  /\ idx' = [idx EXCEPT ![p] = @ + 1]
  /\ UNCHANGED <<feed, pc, force, creds, topics, new_topics_sorted, topic_id,
                 error, fileAtStart, prev>>

\* run_normal, lines 134-147: one iteration, send_telegram returning normally
LoopSend(p) ==
  /\ pc[p] = "loop"
  /\ idx[p] <= Len(new_topics_sorted[p])
  /\ creds[p]
  /\ Logged(p, Ev("send", "NEW", new_topics_sorted[p][idx[p]].id))
  /\ last_seen' = [last_seen EXCEPT ![p] = new_topics_sorted[p][idx[p]].id]
  /\ idx' = [idx EXCEPT ![p] = @ + 1]
  /\ UNCHANGED <<feed, file, pc, force, creds, topics, new_topics_sorted, topic_id,
                 error, fileAtStart, lastSaved, prev>>

\* send_telegram, lines 43-44, called from the loop
LoopSendNoCreds(p) ==
  /\ pc[p] = "loop"
  /\ idx[p] <= Len(new_topics_sorted[p])
  /\ ~creds[p]
  /\ Raise(p, "ConfigError")
  /\ UNCHANGED <<feed, file, force, creds, topics, last_seen, new_topics_sorted,
                 idx, topic_id, log, fileAtStart, lastSaved, prev>>

\* Variant: a failed dispatch persists the progress made before aborting.
LoopSendFail_SaveProgress(p) ==
  /\ pc[p] = "loop"
  /\ idx[p] <= Len(new_topics_sorted[p])
  /\ creds[p]
  /\ Raise(p, "DispatchError")
  /\ file' = Record(last_seen[p])
  /\ lastSaved' = Record(last_seen[p])
  /\ UNCHANGED <<feed, force, creds, topics, last_seen, new_topics_sorted,
                 idx, topic_id, log, fileAtStart, prev>>

\* send_telegram, lines 52-54, called from the loop
LoopSendFail(p) ==
  /\ pc[p] = "loop"
  /\ idx[p] <= Len(new_topics_sorted[p])
  /\ creds[p]
  /\ Raise(p, "DispatchError")
  /\ UNCHANGED <<feed, file, force, creds, topics, last_seen, new_topics_sorted,
                 idx, topic_id, log, fileAtStart, lastSaved, prev>>

\* run_normal, line 149: the loop is over, save_last_seen(last_seen) is called
LoopEnd(p) ==
  /\ pc[p] = "loop"
  /\ idx[p] > Len(new_topics_sorted[p])
  /\ topic_id' = [topic_id EXCEPT ![p] = last_seen[p]]
  /\ pc' = [pc EXCEPT ![p] = "save_open"]
  /\ UNCHANGED <<feed, file, force, creds, topics, last_seen, new_topics_sorted,
                 idx, error, log, fileAtStart, lastSaved, prev>>

\* save_last_seen, line 80: open(path, "w") creates or truncates the file
SaveOpen(p) ==
  /\ pc[p] = "save_open"
  /\ file' = Truncated
  /\ pc' = [pc EXCEPT ![p] = "save_write"]
  /\ UNCHANGED <<feed, force, creds, topics, last_seen, new_topics_sorted, idx,
                 topic_id, error, log, fileAtStart, lastSaved, prev>>

\* save_last_seen, line 81: json.dump and the close of the with block;
\* run_normal returns after it (lines 121-122, 150)
SaveWrite(p) ==
  /\ pc[p] = "save_write"
  /\ file' = Record(topic_id[p])
  /\ lastSaved' = Record(topic_id[p])
  /\ Logged(p, Ev("save", "", topic_id[p]))
  /\ pc' = [pc EXCEPT ![p] = "done"]
  /\ UNCHANGED <<feed, force, creds, topics, last_seen, new_topics_sorted, idx,
                 topic_id, error, fileAtStart, prev>>

\* The process has ended; its locals are gone.
Exit(p) ==
  /\ pc[p] \in {"done", "aborted"}
  /\ prev' = IF force[p] THEN prev
             ELSE [outcome |-> IF pc[p] = "done" THEN "done" ELSE error[p],
                   topics |-> topics[p], sent |-> Sent(p),
                   notified |-> prev.notified]
  /\ pc' = [pc EXCEPT ![p] = "idle"]
  /\ force' = [force EXCEPT ![p] = FALSE]
  /\ creds' = [creds EXCEPT ![p] = FALSE]
  /\ topics' = [topics EXCEPT ![p] = <<>>]
  /\ last_seen' = [last_seen EXCEPT ![p] = 0]
  /\ new_topics_sorted' = [new_topics_sorted EXCEPT ![p] = <<>>]
  /\ idx' = [idx EXCEPT ![p] = 0]
  /\ topic_id' = [topic_id EXCEPT ![p] = 0]
  /\ error' = [error EXCEPT ![p] = ""]
  /\ feed' = [feed EXCEPT ![p] = <<>>]
  /\ log' = [log EXCEPT ![p] = <<>>]
  /\ fileAtStart' = [fileAtStart EXCEPT ![p] = Absent]
  /\ UNCHANGED <<file, lastSaved>>

Next ==
  \E p \in Procs :
    \/ Start(p)
    \/ Fetch(p)
    \/ FetchFail(p)
    \/ ForceEmpty(p)
    \/ ForceSend(p)
    \/ ForceSendNoCreds(p)
    \/ ForceSendFail(p)
    \/ NormalEmpty(p)
    \/ NormalFirstRun(p)
    \/ NormalExists(p)
    \/ NormalLoadFail(p)
    \/ NormalNoNew(p)
    \/ NormalNew(p)
    \/ LoopSend(p)
    \/ LoopSendNoCreds(p)
    \/ LoopSendFail(p)
    \/ LoopEnd(p)
    \/ SaveOpen(p)
    \/ SaveWrite(p)
    \/ Exit(p)

Spec == Init /\ [][Next]_vars

TypeOK ==
  /\ file.kind \in {"absent", "truncated", "garbage", "nofield", "json"}
  /\ \A p \in Procs :
       pc[p] \in {"idle", "fetch", "force", "normal", "load", "loop",
                  "save_open", "save_write", "done", "aborted"}

\* ---- Properties ----------------------------------------------------------
Ended(p) == pc[p] \in {"done", "aborted"}
SentIds(p) == {Sent(p)[k].id : k \in 1..Len(Sent(p))}
Saved(p) == \E k \in 1..Len(log[p]) : log[p][k].op = "save"
TimesSent(p, i) == Cardinality({k \in 1..Len(Sent(p)) : Sent(p)[k].id = i})

\* C1: between the start and the end of any run, completed or aborted, the
\* state file either is untouched or holds a watermark that is at least the
\* one a load at the start of the run returns; runs are serialized, so the
\* persisted watermark never decreases from one run to the next.
C1_WatermarkNeverDecreases ==
  \A p \in Procs :
    Ended(p) =>
      \/ file = fileAtStart[p]
      \/ /\ file.kind = "json"
         /\ LoadLastSeen(fileAtStart[p]).ok
         /\ file.val >= LoadLastSeen(fileAtStart[p]).val

C1_Witness ==
  \E p \in Procs :
    /\ pc[p] = "done" /\ ~force[p]
    /\ fileAtStart[p] = Record(1) /\ file = Record(3)
    /\ prev.outcome = "DispatchError"

\* C2: a normal-mode run that fetched a non-empty listing and found no state
\* file ends with no notification dispatched and with the state file holding
\* the largest id of the fetched listing.
C2_FirstRunInitializes ==
  \A p \in Procs :
    (Ended(p) /\ ~force[p] /\ feed[p] # <<>> /\ fileAtStart[p] = Absent) =>
      /\ Sent(p) = <<>>
      /\ file.kind = "json"
      /\ file.val \in IdsOf(feed[p])
      /\ \A i \in IdsOf(feed[p]) : i <= file.val

C2_Witness ==
  \E p \in Procs :
    /\ pc[p] = "done" /\ ~force[p] /\ fileAtStart[p] = Absent
    /\ feed[p] = <<Topic(2), Topic(3), Topic(1)>>
    /\ file = Record(3)

\* C3: a normal-mode run that completes on an existing state file whose load
\* gives w has dispatched exactly one notification for every fetched topic
\* with id > w, none for any other id, and, when there is such a topic, ends
\* with the state file holding the largest dispatched id.
C3_NotifiesExactlyTheNewTopics ==
  \A p \in Procs :
    (pc[p] = "done" /\ ~force[p] /\ PathExists(fileAtStart[p])
       /\ fileAtStart[p].kind \in {"json", "nofield"}) =>
      LET w == fileAtStart[p].val
          new == {i \in IdsOf(feed[p]) : i > w}
      IN /\ \A i \in new : TimesSent(p, i) = 1
         /\ SentIds(p) \subseteq new
         /\ \A k \in 1..Len(Sent(p)) : Sent(p)[k].label = "NEW"
         /\ new # {} =>
              /\ file.kind = "json"
              /\ file.val \in SentIds(p)
              /\ \A i \in SentIds(p) : i <= file.val

C3_Witness ==
  \E p \in Procs :
    /\ pc[p] = "done" /\ ~force[p] /\ fileAtStart[p] = Record(1)
    /\ feed[p] = <<Topic(3), Topic(2), Topic(1)>>
    /\ Len(Sent(p)) = 2 /\ Sent(p)[1].id = 2 /\ Sent(p)[2].id = 3
    /\ file = Record(3)

\* C4: at every moment of a normal-mode run the notifications dispatched so
\* far are in strictly ascending order of topic id, whatever the order of
\* the feed.
C4_DispatchAscending ==
  \A p \in Procs :
    ~force[p] =>
      \A a, b \in 1..Len(Sent(p)) : a < b => Sent(p)[a].id < Sent(p)[b].id

C4_Witness ==
  \E p \in Procs :
    /\ ~force[p] /\ feed[p] = <<Topic(2), Topic(3), Topic(1)>>
    /\ Len(Sent(p)) = 3

\* C5: a normal-mode run on a state file holding watermark w, with a fetched
\* listing whose ids are all <= w, ends with no notification dispatched, the
\* state file as it was and no save performed.
C5_NothingNewIsANoOp ==
  \A p \in Procs :
    (Ended(p) /\ ~force[p] /\ error[p] # "FetchError"
       /\ fileAtStart[p].kind = "json"
       /\ \A i \in IdsOf(feed[p]) : i <= fileAtStart[p].val) =>
      /\ Sent(p) = <<>>
      /\ file = fileAtStart[p]
      /\ ~Saved(p)

C5_Witness ==
  \E p \in Procs :
    /\ pc[p] = "done" /\ ~force[p] /\ fileAtStart[p] = Record(2)
    /\ feed[p] = <<Topic(1), Topic(2)>>
    /\ file = Record(2)

StoreOps(p) == {k \in 1..Len(log[p]) : log[p][k].op \in {"exists", "load", "save"}}
SameListing(p) == error[p] # "FetchError" /\ IdsOf(feed[p]) = IdsOf(prev.topics)

\* C6: when a normal-mode run completed and the next normal-mode run fetches
\* the same listing, that second run ends with no notification dispatched and
\* with the state file as the first run left it.
C6_SecondRunIsIdle ==
  \A p \in Procs :
    (Ended(p) /\ ~force[p] /\ prev.outcome = "done" /\ SameListing(p)) =>
      /\ Sent(p) = <<>>
      /\ file = fileAtStart[p]

C6_Witness ==
  \E p \in Procs :
    /\ pc[p] = "done" /\ ~force[p] /\ prev.outcome = "done"
    /\ Len(prev.sent) = 2 /\ SameListing(p)
    /\ file = Record(3)

\* C7: from its start to its end, whether it is a no-op, dispatches or
\* aborts, a test-mode run performs no exists, load or save on the state
\* file, and the state file is as it was when the run started.
C7_TestModeLeavesStoreAlone ==
  \A p \in Procs :
    force[p] => (file = fileAtStart[p] /\ StoreOps(p) = {})

C7_Witness ==
  \E p \in Procs :
    /\ pc[p] = "done" /\ force[p] /\ Len(Sent(p)) = 1
    /\ fileAtStart[p] = Absent /\ file = Absent

\* C8 as stated: every test-mode run that fetched a non-empty listing has,
\* when it ends, dispatched exactly one notification, labelled as a test,
\* for the largest fetched id.
C8_Original ==
  \A p \in Procs :
    (Ended(p) /\ force[p] /\ feed[p] # <<>>) =>
      /\ Len(Sent(p)) = 1
      /\ Sent(p)[1].label = "TEST"
      /\ Sent(p)[1].id \in IdsOf(feed[p])
      /\ \A i \in IdsOf(feed[p]) : i <= Sent(p)[1].id

\* C8 (amended): a test-mode run that fetched a non-empty listing and
\* completes has dispatched exactly one notification, labelled as a test,
\* for the largest fetched id whatever the feed order; one that aborts has
\* dispatched none.
C8_TestModeSendsNewest ==
  \A p \in Procs :
    (Ended(p) /\ force[p] /\ feed[p] # <<>>) =>
      IF pc[p] = "done"
      THEN /\ Len(Sent(p)) = 1
           /\ Sent(p)[1].label = "TEST"
           /\ Sent(p)[1].id \in IdsOf(feed[p])
           /\ \A i \in IdsOf(feed[p]) : i <= Sent(p)[1].id
      ELSE Sent(p) = <<>>

C8_Witness ==
  \E p \in Procs :
    /\ pc[p] = "done" /\ force[p]
    /\ feed[p] = <<Topic(2), Topic(3), Topic(1)>>
    /\ Len(Sent(p)) = 1 /\ Sent(p)[1].id = 3

\* C9: when a run has aborted (fetch failure, unparseable state file, missing
\* credentials, dispatch failure) the run has performed no save, the state
\* file is as it was when the run started, and, once any save has completed,
\* it holds exactly what the last completed save wrote.
C9_AbortLeavesStore ==
  \A p \in Procs :
    pc[p] = "aborted" =>
      /\ ~Saved(p)
      /\ file = fileAtStart[p]
      /\ lastSaved # Absent => file = lastSaved

C9_Witness ==
  \E p \in Procs :
    /\ pc[p] = "aborted" /\ error[p] = "DispatchError"
    /\ Len(Sent(p)) = 1
    /\ lastSaved = Record(1) /\ file = Record(1)

\* The run of p follows a normal-mode run on the same listing whose dispatch
\* failed at its k-th topic, k > 1.
AfterMidBatchFailure(p) ==
  /\ ~force[p] /\ SameListing(p)
  /\ prev.outcome = "DispatchError" /\ prev.sent # <<>>

\* A normal-mode run aborted by a dispatch failure has sent the topics of its
\* batch before the failing one and has left the state file as it found it.
MidBatchFailure(p) ==
  (pc[p] = "aborted" /\ error[p] = "DispatchError" /\ ~force[p]) =>
    /\ Len(Sent(p)) = idx[p] - 1
    /\ \A k \in 1..Len(Sent(p)) : Sent(p)[k].id = new_topics_sorted[p][k].id
    /\ file = fileAtStart[p]

\* C10 as stated: after a dispatch failure at the k-th topic (k > 1) the
\* first k-1 notifications are sent and the state file is as at the start of
\* the run, and the next normal-mode run on the same listing, when it ends,
\* has dispatched those k-1 topics again.
C10_Original ==
  \A p \in Procs :
    /\ MidBatchFailure(p)
    /\ (Ended(p) /\ AfterMidBatchFailure(p)) =>
         \A k \in 1..Len(prev.sent) : TimesSent(p, prev.sent[k].id) >= 1

\* C10 (amended): after a dispatch failure at the k-th topic (k > 1) the
\* first k-1 notifications are sent and the state file is as at the start of
\* the run; the next normal-mode run on the same listing has those k-1
\* topics, in the same order, at the head of its batch, dispatches them in
\* that order, and has dispatched all of them again when it completes (it
\* may itself abort before reaching them).
C10_ResendAfterMidBatchFailure ==
  \A p \in Procs :
    /\ MidBatchFailure(p)
    /\ (AfterMidBatchFailure(p)
          /\ pc[p] \in {"loop", "save_open", "save_write", "done", "aborted"}) =>
         /\ Len(new_topics_sorted[p]) > Len(prev.sent)
         /\ \A k \in 1..Len(prev.sent) :
              new_topics_sorted[p][k].id = prev.sent[k].id
         /\ \A k \in 1..Len(Sent(p)) :
              Sent(p)[k].id = new_topics_sorted[p][k].id
         /\ pc[p] = "done" =>
              \A k \in 1..Len(prev.sent) : TimesSent(p, prev.sent[k].id) >= 1

C10_Witness ==
  \E p \in Procs :
    /\ pc[p] = "done" /\ AfterMidBatchFailure(p)
    /\ Len(prev.sent) = 2 /\ prev.sent[1].id = 1 /\ prev.sent[2].id = 2
    /\ Len(Sent(p)) = 3 /\ Sent(p)[1].id = 1 /\ Sent(p)[2].id = 2

\* The run of p was aborted by a dispatch failure after at least one
\* notification of its batch had been sent.
FailedMidLoop(p) ==
  /\ pc[p] = "aborted" /\ error[p] = "DispatchError" /\ ~force[p]
  /\ Sent(p) # <<>>

\* C11 as stated: a failure in the middle of the dispatch loop leaves the
\* persisted watermark at the id of the last successfully processed topic.
C11_Original ==
  \A p \in Procs :
    FailedMidLoop(p) => file = Record(Sent(p)[Len(Sent(p))].id)

\* C11 (amended): a failure in the middle of the dispatch loop leaves only
\* the in-memory tracking value last_seen at the id of the last successfully
\* processed topic; the persisted watermark is still its value from the
\* start of the batch, below every id already dispatched.
C11_OnlyTrackingValueAdvances ==
  \A p \in Procs :
    FailedMidLoop(p) =>
      /\ last_seen[p] = Sent(p)[Len(Sent(p))].id
      /\ file = fileAtStart[p]
      /\ LoadLastSeen(file).ok
      /\ \A i \in SentIds(p) : LoadLastSeen(file).val < i

C11_Witness ==
  \E p \in Procs :
    /\ FailedMidLoop(p) /\ fileAtStart[p] = Record(1)
    /\ Len(Sent(p)) = 1 /\ Sent(p)[1].id = 2
    /\ last_seen[p] = 2 /\ file = Record(1)

\* The run of p gets as far as a send_telegram call: test mode with a
\* non-empty listing, or normal mode with a loadable state file and a fetched
\* topic above the watermark it holds.
ReachesDispatch(p) ==
  /\ feed[p] # <<>>
  /\ \/ force[p]
     \/ /\ fileAtStart[p].kind \in {"json", "nofield"}
        /\ \E i \in IdsOf(feed[p]) : i > fileAtStart[p].val

\* C12: a run without channel credentials ends with the missing-credentials
\* error exactly when it reaches a dispatch attempt, and then no notification
\* has been sent; a run that fetched an empty listing (either mode), a
\* first-ever normal run and a normal run with nothing new complete.
C12_ConfigErrorOnlyAtDispatch ==
  \A p \in Procs :
    (Ended(p) /\ ~creds[p]) =>
      /\ (error[p] = "ConfigError") <=> ReachesDispatch(p)
      /\ ReachesDispatch(p) => (pc[p] = "aborted" /\ Sent(p) = <<>>)
      /\ (error[p] # "FetchError" /\ feed[p] = <<>>) => pc[p] = "done"
      /\ (~force[p] /\ feed[p] # <<>> /\ fileAtStart[p] = Absent) => pc[p] = "done"
      /\ (~force[p] /\ feed[p] # <<>> /\ fileAtStart[p].kind = "json"
            /\ \A i \in IdsOf(feed[p]) : i <= fileAtStart[p].val) => pc[p] = "done"

C12_Witness ==
  \E p \in Procs :
    /\ pc[p] = "aborted" /\ error[p] = "ConfigError" /\ ~creds[p] /\ ~force[p]
    /\ Len(new_topics_sorted[p]) = 2 /\ Sent(p) = <<>>
    /\ prev.outcome = "done"

\* C13 as stated: in a normal-mode run on a state file that exists but holds
\* no parseable last-seen id (invalid content, or an object without the id
\* member) the load never returns: once it has been attempted the run is
\* aborted by the load error, and no notification is dispatched.
C13_Original ==
  \A p \in Procs :
    (~force[p] /\ fileAtStart[p].kind \in {"garbage", "truncated", "nofield"}) =>
      /\ (\E k \in 1..Len(log[p]) : log[p][k].op = "load") =>
           (pc[p] = "aborted" /\ error[p] = "CorruptStateError")
      /\ Sent(p) = <<>>

\* ---- The Watermark Store on its own -------------------------------------
MaxStoredId == 110     \* ids given to save_last_seen are drawn from 0..MaxStoredId

\* save_last_seen(STATE_FILE, n) is called; no other call is in progress.
StoreSave(p) ==
  /\ \A q \in Procs : pc[q] = "idle"
  /\ \E n \in 0..MaxStoredId : topic_id' = [topic_id EXCEPT ![p] = n]
  /\ pc' = [pc EXCEPT ![p] = "save_open"]
  /\ fileAtStart' = [fileAtStart EXCEPT ![p] = file]
  /\ UNCHANGED <<feed, file, force, creds, topics, last_seen, new_topics_sorted,
                 idx, error, log, lastSaved, prev>>

\* load_last_seen(STATE_FILE) is called and returns or raises; no other call
\* is in progress.
StoreLoad(p) ==
  /\ \A q \in Procs : pc[q] = "idle"
  /\ Logged(p, Ev("load", "", LoadLastSeen(file).val))
  /\ IF LoadLastSeen(file).ok
     THEN /\ last_seen' = [last_seen EXCEPT ![p] = LoadLastSeen(file).val]
          /\ pc' = [pc EXCEPT ![p] = "done"]
          /\ UNCHANGED error
     ELSE /\ Raise(p, "CorruptStateError")
          /\ UNCHANGED last_seen
  /\ fileAtStart' = [fileAtStart EXCEPT ![p] = file]
  /\ UNCHANGED <<feed, file, force, creds, topics, new_topics_sorted, idx,
                 topic_id, lastSaved, prev>>

StoreInit == Init /\ file = Absent

StoreNext ==
  \E p \in Procs :
    \/ StoreSave(p)
    \/ StoreLoad(p)
    \/ SaveOpen(p)
    \/ SaveWrite(p)
    \/ Exit(p)

StoreSpec == StoreInit /\ [][StoreNext]_vars

Loaded(p) == \E k \in 1..Len(log[p]) : log[p][k].op = "load"

\* C14: once a save_last_seen(id) call has completed, the state file exists
\* and a load_last_seen call returns id, for every id in 0..MaxStoredId, as
\* long as no later save has begun; a load with no state file returns 0.
C14_SaveLoadRoundTrip ==
  /\ \A p \in Procs :
       (pc[p] = "done" /\ Saved(p)) =>
         /\ PathExists(file)
         /\ lastSaved = Record(topic_id[p])
  /\ \A p \in Procs :
       Loaded(p) =>
         /\ pc[p] = "done"
         /\ lastSaved = Absent => (~PathExists(file) /\ last_seen[p] = 0)
         /\ lastSaved # Absent => (PathExists(file) /\ last_seen[p] = lastSaved.val)

C14_Witness ==
  \E p \in Procs :
    /\ pc[p] = "done" /\ Loaded(p)
    /\ lastSaved = Record(101) /\ last_seen[p] = 101
    /\ Text(file) = <<"{", "last_topic_id", ":", "1", "0", "1", "}">>

\* ---- Overlapping invocations ---------------------------------------------
\* Two normal-mode invocations that nothing serializes, each running once;
\* either can be killed at any point before it ends.  Within the bounds all
\* saved ids have one digit, so two writers that both opened the file leave
\* the text of whichever wrote last.
ConcProcs == {1, 2}

\* The job is started whatever the other invocation is doing.
ConcStart(p) ==
  /\ pc[p] = "idle"
  /\ \E c \in BOOLEAN : creds' = [creds EXCEPT ![p] = c]
  /\ force' = [force EXCEPT ![p] = FALSE]
  /\ pc' = [pc EXCEPT ![p] = "fetch"]
  /\ fileAtStart' = [fileAtStart EXCEPT ![p] = file]
  /\ UNCHANGED <<feed, file, topics, last_seen, new_topics_sorted, idx,
                 topic_id, error, log, lastSaved, prev>>

\* fetch_uniswap_topics succeeds; the feed order, which the sort in it
\* removes, is taken to be newest first already.
FetchSorted(p) ==
  /\ Fetch(p)
  /\ feed'[p] = topics'[p]

\* The process is killed (signal, scheduler timeout, power loss).
Kill(p) ==
  /\ pc[p] \notin {"idle", "done", "aborted"}
  /\ Raise(p, "Killed")
  /\ UNCHANGED <<feed, file, force, creds, topics, last_seen, new_topics_sorted,
                 idx, topic_id, log, fileAtStart, lastSaved, prev>>

ConcNext ==
  \E p \in ConcProcs :
    \/ ConcStart(p)
    \/ FetchSorted(p)
    \/ FetchFail(p)
    \/ NormalEmpty(p)
    \/ NormalFirstRun(p)
    \/ NormalExists(p)
    \/ NormalLoadFail(p)
    \/ NormalNoNew(p)
    \/ NormalNew(p)
    \/ LoopSend(p)
    \/ LoopSendNoCreds(p)
    \/ LoopSendFail(p)
    \/ LoopEnd(p)
    \/ SaveOpen(p)
    \/ SaveWrite(p)
    \/ Kill(p)

ConcSpec == Init /\ [][ConcNext]_vars

\* C15 as stated: no load ever finds a partial (truncated or empty) state
\* file, whether a save was interrupted or is still in progress.
C15_Original ==
  \A p \in Procs : pc[p] = "load" => file.kind # "truncated"

SavedVal(p) == log[p][CHOOSE k \in 1..Len(log[p]) : log[p][k].op = "save"].id
LoadedVal(p) == log[p][CHOOSE k \in 1..Len(log[p]) : log[p][k].op = "load"].id

\* Both runs have completed a save, the state file holds what p wrote, and
\* that is lower than what q saved: p wrote last and took the watermark down.
LostUpdate(p, q) ==
  /\ p # q
  /\ pc[p] = "done" /\ Saved(p)
  /\ pc[q] = "done" /\ Saved(q)
  /\ file = Record(SavedVal(p)) /\ lastSaved = Record(SavedVal(p))
  /\ SavedVal(p) < SavedVal(q)

\* C16: overlapping normal-mode runs are not safe.  Every run that loads
\* and saves writes a value above the one it loaded, so whenever the last
\* writer leaves the state file below a value another run saved, it had
\* read the store without that value in it: it loaded a lower watermark, or
\* saw no state file.  (C16_Witness is the interleaving the claim asserts.)
C16_LostUpdateByStaleRead ==
  /\ \A p \in Procs :
       (Saved(p) /\ Loaded(p)) => SavedVal(p) > LoadedVal(p)
  /\ \A p, q \in Procs :
       LostUpdate(p, q) =>
         \/ Loaded(p) /\ LoadedVal(p) < SavedVal(q)
         \/ ~Loaded(p) /\ fileAtStart[p] = Absent

\* The last writer's save leaves the watermark below the value the other run
\* had saved, and a topic has been dispatched by both runs.
C16_Witness ==
  \E p, q \in Procs :
    /\ LostUpdate(p, q)
    /\ SentIds(p) \cap SentIds(q) # {}

\* C17: a run of either mode that fetched an empty listing completes with
\* nothing dispatched, no exists, load or save performed and the state file
\* as it was; so after a normal-mode run on an empty listing with no state
\* file, the next normal-mode run with a non-empty listing still finds no
\* state file and takes the first-run path: it saves the largest fetched id
\* without loading or dispatching.
C17_EmptyListingIsANoOp ==
  \A p \in Procs :
    /\ (Ended(p) /\ error[p] # "FetchError" /\ feed[p] = <<>>) =>
         /\ pc[p] = "done"
         /\ Sent(p) = <<>>
         /\ StoreOps(p) = {}
         /\ file = fileAtStart[p]
    /\ (Ended(p) /\ ~force[p] /\ feed[p] # <<>> /\ fileAtStart[p] = Absent
          /\ prev.outcome = "done" /\ prev.topics = <<>>) =>
         /\ pc[p] = "done"
         /\ ~Loaded(p) /\ Saved(p) /\ Sent(p) = <<>>
         /\ file.kind = "json"
         /\ file.val \in IdsOf(feed[p])
         /\ \A i \in IdsOf(feed[p]) : i <= file.val

C17_Witness ==
  \E p \in Procs :
    /\ pc[p] = "done" /\ ~force[p] /\ fileAtStart[p] = Absent
    /\ prev.outcome = "done" /\ prev.topics = <<>>
    /\ feed[p] = <<Topic(1), Topic(3)>> /\ file = Record(3)

SaveEvents(p) == {k \in 1..Len(log[p]) : log[p][k].op = "save"}

\* C18: a run performs at most one save and nothing after it; no save comes
\* before a dispatch of the same run; the state file differs from what the
\* run found only once its save has begun; and in a notifying normal-mode
\* run the save begins only when every topic of the batch has been
\* dispatched.
C18_OneSaveAfterAllDispatches ==
  \A p \in Procs :
    /\ Cardinality(SaveEvents(p)) <= 1
    /\ \A k \in SaveEvents(p) : k = Len(log[p]) /\ pc[p] = "done"
    /\ \A a, b \in 1..Len(log[p]) :
         (a < b /\ log[p][a].op = "save") => log[p][b].op # "send"
    /\ (pc[p] # "idle" /\ file # fileAtStart[p]) =>
         pc[p] \in {"save_write", "done"}
    /\ (pc[p] \in {"save_open", "save_write"} \/ Saved(p)) =>
         /\ Len(Sent(p)) = Len(new_topics_sorted[p])
         /\ \A k \in 1..Len(new_topics_sorted[p]) :
              Sent(p)[k].id = new_topics_sorted[p][k].id

C18_Witness ==
  \E p \in Procs :
    /\ pc[p] = "done" /\ Cardinality(SaveEvents(p)) = 1
    /\ Len(Sent(p)) = 3 /\ log[p][Len(log[p])].op = "save"
    /\ file = Record(3)

\* ---- Scheduled normal-mode runs on an initialized store -------------------
\* The scheduler starts a normal-mode run when none is in progress.
LiveStart(p) ==
  /\ Start(p)
  /\ force'[p] = FALSE

\* The locals of an ended process are gone.
LocalsGone(p) ==
  /\ pc[p] \in {"done", "aborted"}
  /\ pc' = [pc EXCEPT ![p] = "idle"]
  /\ force' = [force EXCEPT ![p] = FALSE]
  /\ creds' = [creds EXCEPT ![p] = FALSE]
  /\ topics' = [topics EXCEPT ![p] = <<>>]
  /\ last_seen' = [last_seen EXCEPT ![p] = 0]
  /\ new_topics_sorted' = [new_topics_sorted EXCEPT ![p] = <<>>]
  /\ idx' = [idx EXCEPT ![p] = 0]
  /\ topic_id' = [topic_id EXCEPT ![p] = 0]
  /\ error' = [error EXCEPT ![p] = ""]
  /\ feed' = [feed EXCEPT ![p] = <<>>]
  /\ log' = [log EXCEPT ![p] = <<>>]
  /\ fileAtStart' = [fileAtStart EXCEPT ![p] = Absent]
  /\ UNCHANGED <<file, lastSaved>>

\* The process has ended (no history of the run is kept).
ExitQuiet(p) ==
  /\ LocalsGone(p)
  /\ UNCHANGED prev

LiveInit == Init /\ file.kind = "json"

LiveNext ==
  \E p \in Procs :
    \/ LiveStart(p)
    \/ FetchSorted(p)
    \/ FetchFail(p)
    \/ NormalEmpty(p)
    \/ NormalExists(p)
    \/ NormalNoNew(p)
    \/ NormalNew(p)
    \/ LoopSend(p)
    \/ LoopSendNoCreds(p)
    \/ LoopSendFail(p)
    \/ LoopEnd(p)
    \/ SaveOpen(p)
    \/ SaveWrite(p)
    \/ ExitQuiet(p)

\* The scheduler keeps invoking the job and a started process keeps running:
\* some step of the system is always eventually taken.
LiveSpec == LiveInit /\ [][LiveNext]_vars /\ WF_vars(LiveNext)

\* Every listing fetched contains topic i.
StaysListed(i) ==
  \A p \in Procs :
    (pc[p] \notin {"idle", "fetch"} /\ error[p] # "FetchError") =>
      i \in IdsOf(feed[p])

\* A run has just failed (fetch, credentials or dispatch).
SomeRunFailed == \E p \in Procs : pc[p] = "aborted"

\* A completed run has dispatched topic i and left the watermark at or above
\* it.
NotifiedAndPassed(i) ==
  \E p \in Procs :
    /\ pc[p] = "done" /\ i \in SentIds(p)
    /\ file.kind = "json" /\ file.val >= i

\* C20: under serialized normal-mode runs on an initialized store, for every
\* topic i: if i is in every fetched listing and runs eventually stop
\* failing, then whenever the persisted watermark is below i, eventually a
\* run dispatches i and completes with the watermark at least i.
C20_NewTopicEventuallyNotified ==
  \A i \in TopicIds :
    ([]StaysListed(i) /\ <>[]~SomeRunFailed) =>
      ((file.kind = "json" /\ file.val < i) ~> NotifiedAndPassed(i))

C20_Witness ==
  \E p \in Procs :
    /\ NotifiedAndPassed(3) /\ fileAtStart[p] = Record(1)
    /\ Len(Sent(p)) = 2 /\ file = Record(3) /\ lastSaved = Record(3)

\* ---- Runs with the record of what completed runs have sent -----------------
\* The process has ended; the ids a completed normal-mode run has sent are
\* added to prev.notified.
ExitNotified(p) ==
  /\ LocalsGone(p)
  /\ prev' = [prev EXCEPT !.notified =
                 IF pc[p] = "done" /\ ~force[p] THEN @ \cup IdsOf(Sent(p)) ELSE @]

NotifyNext ==
  \E p \in Procs :
    \/ Start(p)
    \/ Fetch(p)
    \/ FetchFail(p)
    \/ ForceEmpty(p)
    \/ ForceSend(p)
    \/ ForceSendNoCreds(p)
    \/ ForceSendFail(p)
    \/ NormalEmpty(p)
    \/ NormalFirstRun(p)
    \/ NormalExists(p)
    \/ NormalLoadFail(p)
    \/ NormalNoNew(p)
    \/ NormalNew(p)
    \/ LoopSend(p)
    \/ LoopSendNoCreds(p)
    \/ LoopSendFail(p)
    \/ LoopEnd(p)
    \/ SaveOpen(p)
    \/ SaveWrite(p)
    \/ ExitNotified(p)

NotifySpec == Init /\ [][NotifyNext]_vars

\* C19: a normal-mode run never dispatches an id twice, nor an id that a
\* completed normal-mode run has dispatched before it; every id dispatched by
\* a completed run is above the watermark loaded at its start and at most the
\* watermark it leaves.  So in a sequence of serialized normal-mode runs none
\* of which aborts, no topic id is dispatched more than once.
C19_NoDuplicateWithoutAbort ==
  \A p \in Procs :
    ~force[p] =>
      /\ \A i \in SentIds(p) : TimesSent(p, i) = 1
      /\ SentIds(p) \cap prev.notified = {}
      /\ (pc[p] = "done" /\ Sent(p) # <<>>) =>
           /\ file.kind = "json"
           /\ \A i \in SentIds(p) :
                LoadLastSeen(fileAtStart[p]).val < i /\ i <= file.val

C19_Witness ==
  \E p \in Procs :
    /\ pc[p] = "done" /\ ~force[p]
    /\ prev.notified = {1, 2} /\ SentIds(p) = {3}
    /\ IdsOf(feed[p]) = {1, 2, 3}
====
